---- MODULE Spec2Model ----
(***************************************************************************)
(* Model of src/app.py: extract_and_flatten_folder(source_folder).         *)
(*                                                                         *)
(* The directory tree under source_folder is the state.  A name is a       *)
(* sequence of one-character strings, a path is a sequence of names        *)
(* relative to source_folder (<<>> is source_folder itself).  `files' maps *)
(* the path of every regular file to its content, `dirs' is the set of     *)
(* the directories below source_folder.                                    *)
(***************************************************************************)
EXTENDS Integers, Sequences, FiniteSets, TLC

\* ------------------------------------------------------------------ bounds
MaxEntries  == 3   \* files (and empty-directory chains) in the initial tree
MaxFailures == 1   \* steps of a behaviour in which an I/O operation fails
MaxScans    == 4   \* scans of phase 1 in one run (the loop has no bound)
ScratchPool == 1   \* names tempfile.mkdtemp chooses among

\* ------------------------------------------------------------------- names
Digit == <<"0", "1", "2", "3", "4", "5", "6", "7", "8", "9">>

\* str(counter) in the f-string of lines 63, 65, 104, 106
RECURSIVE Str(_)
Str(n) == IF n < 10 THEN <<Digit[n + 1]>>
          ELSE Str(n \div 10) \o <<Digit[(n % 10) + 1]>>

\* str.endswith
EndsWith(name, suffix) ==
    /\ Len(name) >= Len(suffix)
    /\ SubSeq(name, Len(name) - Len(suffix) + 1, Len(name)) = suffix

\* IsZipName with the suffix in upper case
IsZipNameUpper(name) == EndsWith(name, <<".", "Z", "I", "P">>)

\* file.endswith('.zip'), line 34
IsZipName(name) == EndsWith(name, <<".", "z", "i", "p">>)

\* os.path.splitext on a basename: split at the last dot, unless the name
\* has no dot or only dots before it (leading dots are not an extension)
LastDot(name) ==
    LET ds == {i \in 1..Len(name) : name[i] = "."}
    IN  IF ds = {} THEN 0 ELSE CHOOSE i \in ds : \A j \in ds : j <= i

splitext(name) ==
    LET d == LastDot(name)
    IN  IF d > 0 /\ \E i \in 1..(d - 1) : name[i] # "."
        THEN <<SubSeq(name, 1, d - 1), SubSeq(name, d, Len(name))>>
        ELSE <<name, <<>>>>

\* f"{base}_{counter}{ext}"
Suffixed(base, counter, ext) == base \o <<"_">> \o Str(counter) \o ext

\* ------------------------------------------------------------------- paths
Last(p)   == p[Len(p)]
Parent(p) == SubSeq(p, 1, Len(p) - 1)
IsPrefix(a, b) == Len(a) <= Len(b) /\ SubSeq(b, 1, Len(a)) = a
Under(p, d)    == IsPrefix(d, p) /\ p # d      \* p lies below directory d

Reverse(s) == [i \in 1..Len(s) |-> s[Len(s) + 1 - i]]

RECURSIVE Perms(_)
Perms(S) == IF S = {} THEN {<<>>}
            ELSE UNION {{<<x>> \o s : s \in Perms(S \ {x})} : x \in S}

\* os.walk(top) top-down: a directory's own entries come before those of its
\* subdirectories, every subtree is walked contiguously, and the order of
\* the entries of one directory is the order of the listing (unspecified).
\* lab[i] is the directory that yields the i-th entry.
TopDown(lab) ==
    /\ \A i, j \in DOMAIN lab : Under(lab[i], lab[j]) => j < i
    /\ \A i, j, k \in DOMAIN lab :
         (i < j /\ j < k) =>
            \A n \in 0..Len(lab[i]) :
               (n <= Len(lab[k]) /\ SubSeq(lab[i], 1, n) = SubSeq(lab[k], 1, n))
                  => IsPrefix(SubSeq(lab[i], 1, n), lab[j])

\* the orders in which os.walk(..., topdown=True) can yield the files S
WalkOrders(S) ==
    {s \in Perms(S) : TopDown([i \in 1..Len(s) |-> Parent(s[i])])}

\* BottomUpOrders with the walk left top-down
TopDownDirOrders(S) ==
    {s \in Perms(S) : TopDown([i \in 1..Len(s) |-> Parent(s[i])])}

\* the orders in which os.walk(..., topdown=False) can yield the
\* directories S as members of their parent's `dirs' list (line 117-119)
BottomUpOrders(S) ==
    {s \in Perms(S) : TopDown(Reverse([i \in 1..Len(s) |-> Parent(s[i])]))}

\* ---------------------------------------------------------------- contents
Data(id)         == [kind |-> "data", id |-> id, entries |-> <<>>]
Zip(id, entries) == [kind |-> "zip",  id |-> id, entries |-> entries]

\* ------------------------------------------------------------- file system
\* RootNames with os.path.isfile in place of os.path.exists
RootNamesFilesOnly(f, d) == {p[1] : p \in {q \in DOMAIN f : Len(q) = 1}}

\* os.path.exists(os.path.join(source_folder, name))
RootNames(f, d) ==
    {p[1] : p \in {q \in (DOMAIN f) \cup d : Len(q) = 1}}

Without(f, S) == [p \in (DOMAIN f) \ S |-> f[p]]

\* shutil.rmtree(t)
RmtreeFiles(f, t) == Without(f, {p \in DOMAIN f : IsPrefix(t, p)})
RmtreeDirs(d, t)  == {p \in d : ~IsPrefix(t, p)}

\* zip_ref.extractall(t) of the entries in E (a subset of the archive's)
ExtractFiles(f, t, c, E) == [p \in {t \o e : e \in E} |-> c.entries[SubSeq(p, Len(t) + 1, Len(p))]] @@ f
ExtractDirs(d, t, E) ==
    d \cup UNION {{t \o SubSeq(e, 1, n) : n \in 1..(Len(e) - 1)} : e \in E}

\* shutil.move(src, dst): a destination that is a directory receives the
\* file under its own basename, and raises shutil.Error when that exists;
\* any other destination is renamed onto (os.rename replaces a file)
MoveDest(d, src, dst)      == IF dst \in d THEN dst \o <<Last(src)>> ELSE dst
MoveRaises(f, d, src, dst) ==
    dst \in d /\ MoveDest(d, src, dst) \in (DOMAIN f) \cup d
Rename(f, src, real)       == (real :> f[src]) @@ Without(f, {src})

\* Listdir with the walk's root, the parent, listed in place of dir_path
ListdirOfParent(f, d, dir) ==
    {p \in (DOMAIN f) \cup d : Len(p) > 0 /\ Parent(p) = Parent(dir)}

\* os.listdir(dir_path), line 120
Listdir(f, d, dir) == {p \in (DOMAIN f) \cup d : Len(p) > 0 /\ Parent(p) = dir}

\* tempfile.mkdtemp(dir=source_folder): a fresh name "tmp..." at the root;
\* the choice is among the ScratchPool first names that are not in use
TmpName(i) == <<"t", "m", "p">> \o Str(i)
IsTmpName(name) == Len(name) > 3 /\ SubSeq(name, 1, 3) = <<"t", "m", "p">>
FreshNames(f, d) ==
    LET used == RootNames(f, d)
        free == {i \in 0..(Cardinality(used) + ScratchPool) : TmpName(i) \notin used}
    IN  {TmpName(i) : i \in {j \in free :
                Cardinality({k \in free : k < j}) < ScratchPool}}

\* FlattenCandidates without the test of lines 94-95
FlattenCandidatesWithRoot(f) == DOMAIN f

\* lines 93-96: the files phase 2 visits, those of every directory but the
\* root
FlattenCandidates(f) == {p \in DOMAIN f : Len(p) > 1}

\* lines 53-54: the files os.walk(temp_extract_dir) finds
ScratchFiles(f, t) == {p \in DOMAIN f : Under(p, t)}

\* lines 32-35: the files a scan of phase 1 collects
ZipCandidates(f) == {p \in DOMAIN f : IsZipName(Last(p))}

\* ------------------------------------------------- collision resolution
\* ExpanderProbe with the counter incremented before the first test
RECURSIVE ExpanderProbeIncrementFirst(_, _, _, _)
ExpanderProbeIncrementFirst(base, ext, counter, used) ==
    IF Suffixed(base, counter + 1, ext) \in used
    THEN ExpanderProbeIncrementFirst(base, ext, counter + 1, used)
    ELSE counter + 1

\* lines 62-64: counter = 1; while os.path.exists(...): counter += 1
RECURSIVE ExpanderProbe(_, _, _, _)
ExpanderProbe(base, ext, counter, used) ==
    IF Suffixed(base, counter, ext) \in used
    THEN ExpanderProbe(base, ext, counter + 1, used)
    ELSE counter

\* ExpanderTarget without the os.path.exists test of line 60
ExpanderTargetUnchecked(name, used) == name

\* lines 56-65: the name the Archive Expander moves an extracted file to
ExpanderTarget(name, used) ==
    IF name \in used
    THEN LET base == splitext(name)[1]
             ext  == splitext(name)[2]
         IN  Suffixed(base, ExpanderProbe(base, ext, 1, used), ext)
    ELSE name

\* FlattenerProbe with the counter incremented before the first test
RECURSIVE FlattenerProbeIncrementFirst(_, _, _, _)
FlattenerProbeIncrementFirst(base, ext, counter, used) ==
    IF Suffixed(base, counter + 1, ext) \in used
    THEN FlattenerProbeIncrementFirst(base, ext, counter + 1, used)
    ELSE counter + 1

\* lines 103-105
RECURSIVE FlattenerProbe(_, _, _, _)
FlattenerProbe(base, ext, counter, used) ==
    IF Suffixed(base, counter, ext) \in used
    THEN FlattenerProbe(base, ext, counter + 1, used)
    ELSE counter

\* FlattenerTarget without the os.path.exists test of line 101
FlattenerTargetUnchecked(file, used) == file

\* lines 98-106: the name the Flattener moves a file to
FlattenerTarget(file, used) ==
    IF file \in used
    THEN LET base == splitext(file)[1]
             ext  == splitext(file)[2]
         IN  Suffixed(base, FlattenerProbe(base, ext, 1, used), ext)
    ELSE file

\* ------------------------------------------------------- the initial trees
XT  == <<"x", ".", "t">>
X1T == <<"x", "_", "1", ".", "t">>
AZ  == <<"a", ".", "z", "i", "p">>
BZ  == <<"b", ".", "z", "i", "p">>
S   == <<"s">>
P   == <<"p">>
Q   == <<"q">>
E   == <<"e">>
F   == <<"f">>

Single(path, c) == path :> c

\* what a.zip at the root can be: absent, an archive of one file, an archive
\* of two files with one basename, an archive holding an archive, an
\* archive holding itself by name, an archive of a file named as the
\* subdirectory, or not an archive at all
RootZipChoices ==
    { <<>>,
      Single(<<AZ>>, Zip("a", Single(<<XT>>, Data("a/x")))),
      Single(<<AZ>>, Zip("a", Single(<<P, XT>>, Data("a/p/x"))
                              @@ Single(<<Q, XT>>, Data("a/q/x")))),
      Single(<<AZ>>, Zip("a", Single(<<P, BZ>>,
                                 Zip("a/b", Single(<<XT>>, Data("a/b/x")))))),
      Single(<<AZ>>, Zip("a", Single(<<AZ>>, Zip("a/a", <<>>)))),
      Single(<<AZ>>, Zip("a", Single(<<S>>, Data("a/s")))),
      Single(<<AZ>>, Data("corrupt")) }

SubZipChoices ==
    { <<>>,
      Single(<<S, BZ>>, Zip("b", Single(<<XT>>, Data("b/x")))),
      Single(<<S, BZ>>, Data("corrupt2")) }

Optional(path, c) == {<<>>, Single(path, c)}

InitialFiles ==
    { a @@ b @@ c @@ d @@ e @@ g @@ h :
        a \in RootZipChoices, b \in SubZipChoices,
        c \in Optional(<<XT>>, Data("x")),
        d \in Optional(<<X1T>>, Data("x_1")),
        e \in Optional(<<S, XT>>, Data("s/x")),
        g \in Optional(<<S, S>>, Data("s/s")),
        h \in Optional(<<S, P, XT>>, Data("s/p/x")) }

\* the directories that hold the files, and possibly a chain of empty ones
DirsOf(f) == UNION {{SubSeq(p, 1, n) : n \in 1..(Len(p) - 1)} : p \in DOMAIN f}
EmptyChains == {{}, {<<E>>, <<E, F>>}}

InitialTrees ==
    { [files |-> f, dirs |-> DirsOf(f) \cup ch] :
        f \in InitialFiles, ch \in EmptyChains }

TreeSize(t) == Cardinality(DOMAIN t.files) + (IF <<E>> \in t.dirs THEN 1 ELSE 0)

NoTree == [files |-> <<>>, dirs |-> {}]

\* -------------------------------------------------------------- the state
VARIABLES
    rootKind,   \* what source_folder is: "dir", "file" or "missing"
    files,      \* path -> content of every regular file below source_folder
    dirs,       \* the directories below source_folder
    pc,         \* the statement the function is at
    zips,       \* zip_files_in_this_pass, from the one being processed on
    todo,       \* the entries the running os.walk loop still has to yield
    temp,       \* temp_extract_dir as a path; <<>> is None
    scans,      \* scans of phase 1 made in this run
    nerr,       \* logging.error calls made in this run
    archErr,    \* a logging.error call was made for the current archive
    out,        \* the log records written by the last step
    failures,   \* steps in which an I/O operation failed so far
    run,        \* 1 in the first call of the function, 2 in the second
    first,      \* the tree and the error count at the end of the first call
    start,      \* the tree the first call started on
    rmdirErr    \* the logging.error call of line 125 was made in this run

vars == <<rootKind, files, dirs, pc, zips, todo, temp, scans, nerr, archErr,
          out, failures, run, first, start, rmdirErr>>

Log(level, what) == [level |-> level, what |-> what]

Init ==
    /\ \/ /\ rootKind = "dir"
          /\ \E t \in InitialTrees :
                /\ TreeSize(t) <= MaxEntries
                /\ files = t.files
                /\ dirs = t.dirs
                /\ start = t
       \/ /\ rootKind \in {"file", "missing"}
          /\ files = <<>>
          /\ dirs = {}
          /\ start = NoTree
    /\ pc = "start"
    /\ zips = <<>>
    /\ todo = <<>>
    /\ temp = <<>>
    /\ scans = 0
    /\ nerr = 0
    /\ archErr = FALSE
    /\ out = <<>>
    /\ failures = 0
    /\ run = 1
    /\ first = [tree |-> NoTree, nerr |-> 0]
    /\ rmdirErr = FALSE

\* isdir with os.path.exists in its place
isdirAsExists(kind) == kind # "missing"

\* os.path.isdir(source_folder), line 19
isdir(kind) == kind = "dir"

\* ------------------------------------------------------------- the actions
\* lines 19-23: the pre-condition on source_folder
Validate ==
    /\ pc = "start"
    /\ IF isdir(rootKind)
       THEN /\ pc' = "scan"
            /\ out' = <<Log("info", "processing")>>
            /\ nerr' = nerr
       ELSE /\ pc' = "returned"
            /\ out' = <<Log("error", "not a directory")>>
            /\ nerr' = nerr + 1
    /\ UNCHANGED <<rootKind, files, dirs, zips, todo, temp, scans, archErr,
                   failures, run, first, start, rmdirErr>>

\* lines 27-38: one scan of the tree for names ending in '.zip'; the loop is
\* left when the scan finds none
Scan ==
    /\ pc = "scan"
    /\ scans < MaxScans
    /\ scans' = scans + 1
    /\ \E w \in WalkOrders(ZipCandidates(files)) :
          /\ zips' = w
          /\ pc' = IF w = <<>> THEN "walk2" ELSE "expand"
    /\ temp' = <<>>
    /\ archErr' = FALSE
    /\ out' = <<>>
    /\ UNCHANGED <<rootKind, files, dirs, todo, nerr, failures, run, first,
                   start, rmdirErr>>

\* Advance with a new scan after every archive
AdvanceRescan ==
    /\ zips' = Tail(zips)
    /\ pc' = "scan"
    /\ todo' = <<>>
    /\ temp' = <<>>

\* the for loop of line 39 goes on to its next archive (line 40 resets
\* temp_extract_dir), or the while loop of line 27 to its next scan
Advance ==
    /\ zips' = Tail(zips)
    /\ pc' = IF Tail(zips) = <<>> THEN "scan" ELSE "expand"
    /\ todo' = <<>>
    /\ temp' = <<>>

\* lines 85-88 when the rmtree of line 88 raises: nothing catches it
Uncaught(where) ==
    /\ pc' = "aborted"
    /\ out' = <<Log("error", "zip"), Log("uncaught", where)>>
    /\ nerr' = nerr + 1
    /\ archErr' = TRUE
    /\ UNCHANGED <<zips, todo, temp>>

\* lines 40-50: mkdtemp, ZipFile(...) and extractall, with the handlers of
\* lines 83-88 for what they raise
Unzip ==
    /\ pc = "expand"
    /\ LET z == Head(zips)
           c == files[z]
       IN
       \/ \* mkdtemp raises: temp_extract_dir is None in the handler
          /\ failures < MaxFailures
          /\ failures' = failures + 1
          /\ Advance
          /\ nerr' = nerr + 1
          /\ archErr' = TRUE
          /\ out' = <<Log("error", "zip")>>
          /\ UNCHANGED <<files, dirs>>
       \/ \E n \in FreshNames(files, dirs) :
          LET t == <<n>> IN
          \/ \* BadZipFile, lines 83-84: a warning and nothing else
             /\ c.kind # "zip"
             /\ dirs' = dirs \cup {t}
             /\ Advance
             /\ out' = <<Log("warning", "not a valid zip")>>
             /\ archErr' = FALSE
             /\ UNCHANGED <<files, nerr, failures>>
          \/ \* extracted
             /\ c.kind = "zip"
             /\ files' = ExtractFiles(files, t, c, DOMAIN c.entries)
             /\ dirs' = ExtractDirs(dirs \cup {t}, t, DOMAIN c.entries)
             /\ \E w \in WalkOrders(ScratchFiles(files', t)) :
                   /\ todo' = w
                   /\ pc' = IF w = <<>> THEN "cleanup" ELSE "move"
             /\ temp' = t
             /\ archErr' = FALSE
             /\ out' = <<Log("info", "extracted")>>
             /\ UNCHANGED <<zips, nerr, failures>>
          \/ \* extractall raises after extracting some entries; line 88
             \* removes the scratch directory
             /\ c.kind = "zip"
             /\ failures < MaxFailures
             /\ \E part \in SUBSET (DOMAIN c.entries) :
                \/ /\ failures' = failures + 1
                   /\ Advance
                   /\ nerr' = nerr + 1
                   /\ archErr' = TRUE
                   /\ out' = <<Log("error", "zip")>>
                   /\ UNCHANGED <<files, dirs>>
                \/ /\ failures' = failures + 1
                   /\ files' = ExtractFiles(files, t, c, part)
                   /\ dirs' = ExtractDirs(dirs \cup {t}, t, part)
                   /\ Uncaught("expand")
    /\ UNCHANGED <<rootKind, scans, run, first, start, rmdirErr>>

\* lines 54-72: one extracted file is moved to the root
MoveExtracted ==
    /\ pc = "move"
    /\ LET original_file_path == Head(todo)
           target_file_name   == Last(original_file_path)
           used   == RootNames(files, dirs)
           target == <<ExpanderTarget(target_file_name, used)>>
           raises == MoveRaises(files, dirs, original_file_path, target)
           rest   == IF Tail(todo) = <<>> THEN "cleanup" ELSE "move"
       IN
       \/ \* moved, lines 69-70
          /\ ~raises
          /\ files' = Rename(files, original_file_path,
                             MoveDest(dirs, original_file_path, target))
          /\ todo' = Tail(todo)
          /\ pc' = rest
          /\ out' = (IF target_file_name \in used
                     THEN <<Log("warning", "conflict")>> ELSE <<>>)
                    \o <<Log("info", "moved")>>
          /\ UNCHANGED <<dirs, zips, temp, nerr, archErr, failures>>
       \/ \* shutil.Error, lines 71-72: reported, the loop goes on
          /\ raises \/ failures < MaxFailures
          /\ failures' = IF raises THEN failures ELSE failures + 1
          /\ todo' = Tail(todo)
          /\ pc' = rest
          /\ nerr' = nerr + 1
          /\ archErr' = TRUE
          /\ out' = <<Log("error", "move")>>
          /\ UNCHANGED <<files, dirs, zips, temp>>
       \/ \* any other exception leaves the try block: lines 85-88
          /\ ~raises
          /\ failures < MaxFailures
          /\ \/ /\ failures' = failures + 1
                /\ files' = RmtreeFiles(files, temp)
                /\ dirs' = RmtreeDirs(dirs, temp)
                /\ Advance
                /\ nerr' = nerr + 1
                /\ archErr' = TRUE
                /\ out' = <<Log("error", "zip")>>
             \/ /\ failures' = failures + 1
                /\ Uncaught("expand")
                /\ UNCHANGED <<files, dirs>>
    /\ UNCHANGED <<rootKind, scans, run, first, start, rmdirErr>>

\* lines 75-77: the scratch directory is removed with what is left in it
Cleanup ==
    /\ pc = "cleanup"
    /\ \/ /\ files' = RmtreeFiles(files, temp)
          /\ dirs' = RmtreeDirs(dirs, temp)
          /\ pc' = "remove"
          /\ out' = <<Log("info", "removed scratch")>>
          /\ UNCHANGED <<zips, todo, temp, nerr, archErr, failures>>
       \/ \* rmtree raises: lines 85-88 try it again
          /\ failures < MaxFailures
          /\ \/ /\ failures' = failures + 1
                /\ files' = RmtreeFiles(files, temp)
                /\ dirs' = RmtreeDirs(dirs, temp)
                /\ Advance
                /\ nerr' = nerr + 1
                /\ archErr' = TRUE
                /\ out' = <<Log("error", "zip")>>
             \/ /\ failures' = failures + 1
                /\ Uncaught("expand")
                /\ UNCHANGED <<files, dirs>>
    /\ UNCHANGED <<rootKind, scans, run, first, start, rmdirErr>>

\* lines 80-81: the archive is deleted
RemoveZip ==
    /\ pc = "remove"
    /\ \/ /\ files' = Without(files, {Head(zips)})
          /\ out' = <<Log("info", "removed zip")>>
          /\ UNCHANGED <<nerr, archErr, failures>>
       \/ \* os.remove raises: lines 85-87, the scratch directory is gone
          /\ failures < MaxFailures
          /\ failures' = failures + 1
          /\ nerr' = nerr + 1
          /\ archErr' = TRUE
          /\ out' = <<Log("error", "zip")>>
          /\ UNCHANGED files
    /\ Advance
    /\ UNCHANGED <<rootKind, dirs, scans, run, first, start, rmdirErr>>

\* lines 92-95: the walk of phase 2 over every directory but the root
FlattenWalk ==
    /\ pc = "walk2"
    /\ \E w \in WalkOrders(FlattenCandidates(files)) :
          /\ todo' = w
          /\ pc' = IF w = <<>> THEN "walk3" ELSE "flatten"
    /\ out' = <<Log("info", "moving")>>
    /\ UNCHANGED <<rootKind, files, dirs, zips, temp, scans, nerr, archErr,
                   failures, run, first, start, rmdirErr>>

\* lines 96-113: one file of a subdirectory is moved to the root
Flatten ==
    /\ pc = "flatten"
    /\ LET file_path == Head(todo)
           file      == Last(file_path)
           used      == RootNames(files, dirs)
           target    == <<FlattenerTarget(file, used)>>
           raises    == MoveRaises(files, dirs, file_path, target)
           rest      == IF Tail(todo) = <<>> THEN "walk3" ELSE "flatten"
       IN
       \/ \* moved, lines 110-111
          /\ ~raises
          /\ files' = Rename(files, file_path,
                             MoveDest(dirs, file_path, target))
          /\ todo' = Tail(todo)
          /\ pc' = rest
          /\ out' = (IF file \in used
                     THEN <<Log("warning", "conflict")>> ELSE <<>>)
                    \o <<Log("info", "moved")>>
          /\ UNCHANGED <<nerr, failures>>
       \/ \* shutil.Error, lines 112-113: reported, the loop goes on
          /\ raises \/ failures < MaxFailures
          /\ failures' = IF raises THEN failures ELSE failures + 1
          /\ todo' = Tail(todo)
          /\ pc' = rest
          /\ nerr' = nerr + 1
          /\ out' = <<Log("error", "move")>>
          /\ UNCHANGED files
       \/ \* any other exception: no handler, the function is left
          /\ ~raises
          /\ failures < MaxFailures
          /\ failures' = failures + 1
          /\ pc' = "aborted"
          /\ out' = <<Log("uncaught", "flatten")>>
          /\ UNCHANGED <<files, todo, nerr>>
    /\ UNCHANGED <<rootKind, dirs, zips, temp, scans, archErr, run, first,
                   start, rmdirErr>>

\* lines 116-119: the bottom-up walk of phase 3
PruneWalk ==
    /\ pc = "walk3"
    /\ \E w \in BottomUpOrders(dirs) :
          /\ todo' = w
          /\ pc' = IF w = <<>> THEN "finish" ELSE "prune"
    /\ out' = <<Log("info", "cleaning")>>
    /\ UNCHANGED <<rootKind, files, dirs, zips, temp, scans, nerr, archErr,
                   failures, run, first, start, rmdirErr>>

\* lines 119-125: one directory is removed when os.listdir finds it empty
Prune ==
    /\ pc = "prune"
    /\ LET dir_path == Head(todo) IN
       \/ /\ Listdir(files, dirs, dir_path) = {}
          /\ \/ /\ dirs' = dirs \ {dir_path}
                /\ out' = <<Log("info", "removed directory")>>
                /\ UNCHANGED <<nerr, failures, rmdirErr>>
             \/ \* os.rmdir raises OSError, lines 124-125
                /\ failures < MaxFailures
                /\ failures' = failures + 1
                /\ nerr' = nerr + 1
                /\ out' = <<Log("error", "rmdir")>>
                /\ rmdirErr' = TRUE
                /\ UNCHANGED dirs
       \/ /\ Listdir(files, dirs, dir_path) # {}
          /\ out' = <<>>
          /\ UNCHANGED <<dirs, nerr, failures, rmdirErr>>
    /\ todo' = Tail(todo)
    /\ pc' = IF Tail(todo) = <<>> THEN "finish" ELSE "prune"
    /\ UNCHANGED <<rootKind, files, zips, temp, scans, archErr, run, first,
                   start>>

\* line 127
Finish ==
    /\ pc = "finish"
    /\ pc' = "done"
    /\ out' = <<Log("info", "finished")>>
    /\ UNCHANGED <<rootKind, files, dirs, zips, todo, temp, scans, nerr,
                   archErr, failures, run, first, start, rmdirErr>>

\* the function is called a second time on the same source_folder
Rerun ==
    /\ pc = "done"
    /\ run = 1
    /\ run' = 2
    /\ first' = [tree |-> [files |-> files, dirs |-> dirs], nerr |-> nerr]
    /\ pc' = "start"
    /\ scans' = 0
    /\ nerr' = 0
    /\ archErr' = FALSE
    /\ out' = <<>>
    /\ zips' = <<>>
    /\ todo' = <<>>
    /\ temp' = <<>>
    /\ rmdirErr' = FALSE
    /\ UNCHANGED <<rootKind, files, dirs, failures, start>>

Next ==
    \/ Validate
    \/ Scan
    \/ Unzip
    \/ MoveExtracted
    \/ Cleanup
    \/ RemoveZip
    \/ FlattenWalk
    \/ Flatten
    \/ PruneWalk
    \/ Prune
    \/ Finish
    \/ Rerun

Spec == Init /\ [][Next]_vars

\* ---------------------------------------------------------- the properties
RootFiles(f) == [p \in {q \in DOMAIN f : Len(q) = 1} |-> f[p]]
ScratchDirs  == {d \in dirs : Len(d) = 1 /\ IsTmpName(d[1])}
Uncaught_at(where) == pc = "aborted" /\ out[Len(out)] = Log("uncaught", where)

\* the files named *.zip in a tree, those inside valid archives included
RECURSIVE NumArchives(_)
NumArchives(f) ==
    LET z == {p \in DOMAIN f : IsZipName(Last(p))}
        RECURSIVE Sum(_)
        Sum(T) == IF T = {} THEN 0
                  ELSE LET p == CHOOSE q \in T : TRUE
                       IN  1 + (IF f[p].kind = "zip"
                                THEN NumArchives(f[p].entries) ELSE 0)
                             + Sum(T \ {p})
    IN  Sum(z)

\* the contents of the regular files of a tree and of the files inside its
\* valid archives, at any depth
RECURSIVE Leaves(_)
Leaves(f) ==
    UNION {IF IsZipName(Last(p))
           THEN (IF f[p].kind = "zip" THEN Leaves(f[p].entries) ELSE {})
           ELSE {f[p]} : p \in DOMAIN f}

RECURSIVE ArchiveLeaves(_)
ArchiveLeaves(f) ==
    UNION {IF IsZipName(Last(p)) /\ f[p].kind = "zip"
           THEN Leaves(f[p].entries) ELSE {} : p \in DOMAIN f}

\* C1: the scan loop converges, an entry that is not a valid archive being
\* no trigger for another scan: a run makes at most one scan for every
\* archive of the initial tree, one more for every I/O operation that
\* failed in a step, and the scan that finds no archive.
C1_ScanLoopConverges ==
    run = 1 => scans <= NumArchives(start.files) + failures + 1

\* C2: after a completed run every file inside a valid archive of the
\* initial tree, at any depth, is a file of the root, with its content.
C2_Completeness ==
    (pc = "done" /\ run = 1) =>
        \A c \in ArchiveLeaves(start.files) :
            \E p \in DOMAIN files : Len(p) = 1 /\ files[p] = c

\* C3: a move to the root never replaces an entry of the root: every file
\* of the root keeps its name and its content, every directory of the root
\* stays, and a moved file arrives as a new file of the root, under its own
\* name when that was free and under another name when it was not.
MoveKeepsRoot ==
    LET src  == Head(todo)
        used == RootNames(files, dirs)
        new  == (DOMAIN files') \ (DOMAIN files)
    IN  /\ \A p \in DOMAIN files :
             Len(p) = 1 => (p \in DOMAIN files' /\ files'[p] = files[p])
        /\ \A d \in dirs : (Len(d) = 1 /\ ~IsTmpName(d[1])) => d \in dirs'
        /\ (out'[Len(out')] = Log("info", "moved")) =>
              \E q \in new :
                 /\ new = {q}
                 /\ Len(q) = 1
                 /\ q[1] \notin used
                 /\ files'[q] = files[src]
                 /\ (Last(src) \in used) = (q[1] # Last(src))
                 /\ DOMAIN files' = ((DOMAIN files) \ {src}) \cup {q}

C3_NoLossOnCollision ==
    [][(pc \in {"move", "flatten"}) => MoveKeepsRoot]_vars

C3_Witness ==
    /\ pc \in {"flatten", "walk3"}
    /\ out = <<Log("warning", "conflict"), Log("info", "moved")>>
    /\ <<XT>> \in DOMAIN files
    /\ <<Suffixed(<<"x">>, 1, <<".", "t">>)>> \in DOMAIN files

\* C4: an archive is deleted only on full success: once a failure has been
\* reported for an archive, no step of its processing deletes the archive
\* file.
C4_ArchiveKeptOnFailure ==
    [][(pc \in {"expand", "move", "cleanup", "remove"} /\ archErr') =>
          Head(zips) \in DOMAIN files']_vars

\* C5: when a run has completed without reporting an error, the root holds
\* regular files only: no directory, no file named *.zip, no name twice.
C5_FinalState ==
    (pc = "done" /\ nerr = 0) =>
        /\ dirs = {}
        /\ \A p \in DOMAIN files : Len(p) = 1 /\ ~IsZipName(p[1])
        /\ Cardinality(RootNames(files, dirs)) = Cardinality(DOMAIN files)

C5_Witness ==
    /\ pc = "done" /\ nerr = 0 /\ run = 1
    /\ Cardinality(start.dirs) >= 2
    /\ NumArchives(start.files) >= 1
    /\ Cardinality(DOMAIN files) >= 3

C7_ScratchRemoved ==
    pc \in {"expand", "scan"} => ScratchDirs = {}

\* C8: the step on an entry named *.zip that is not a valid archive changes
\* no file and no directory of the tree, and the expander goes on with the
\* rest of the scan.
C8_InvalidArchiveSkipped ==
    [][(pc = "expand" /\ files[Head(zips)].kind # "zip") =>
          /\ files' = files
          /\ dirs' = dirs
          /\ zips' = Tail(zips)
          /\ pc' \in {"expand", "scan"}]_vars

\* C9: no failure of a move in the Flattener ends the run.
C9_FlattenerNeverAborts ==
    ~Uncaught_at("flatten")

\* C10: for every name a file of the tree can be moved under, the Archive
\* Expander and the Flattener choose the same destination: the name itself
\* when the root does not hold it, else base_k+ext for the least k >= 1
\* that the root does not hold.
C10_LeastFreeSuffix ==
    LET used == RootNames(files, dirs) IN
    \A p \in DOMAIN files :
        LET name == Last(p)
            base == splitext(name)[1]
            ext  == splitext(name)[2]
            te   == ExpanderTarget(name, used)
            tf   == FlattenerTarget(name, used)
        IN  /\ te = tf
            /\ base \o ext = name
            /\ name \notin used => te = name
            /\ name \in used =>
                 \E k \in 1..(Cardinality(used) + 1) :
                    /\ te = base \o <<"_">> \o Str(k) \o ext
                    /\ te \notin used
                    /\ \A j \in 1..(k - 1) :
                          (base \o <<"_">> \o Str(j) \o ext) \in used

C10_Witness ==
    /\ pc = "move"
    /\ Last(Head(todo)) = XT
    /\ {XT, X1T} \subseteq RootNames(files, dirs)
    /\ ExpanderTarget(XT, RootNames(files, dirs)) = <<"x", "_", "2", ".", "t">>

\* C11: when source_folder is missing or is not a directory the function
\* reports an error and returns: it makes no scan, creates no scratch
\* directory, moves and deletes nothing, and takes no step of a phase.
C11_InvalidRootReturns ==
    rootKind # "dir" =>
        /\ pc \in {"start", "returned"}
        /\ files = start.files
        /\ dirs = start.dirs
        /\ scans = 0
        /\ temp = <<>>
        /\ failures = 0
        /\ pc = "returned" =>
              (nerr = 1 /\ out = <<Log("error", "not a directory")>>)

C11_Witness ==
    /\ rootKind = "file"
    /\ pc = "returned"
    /\ nerr = 1

\* C12: when phase 3 has run and no os.rmdir failed, every directory left
\* below the root holds a file at some depth, so none is empty; a chain of
\* directories without files is removed within the one run; the root is
\* never an entry phase 3 tests or removes.
C12_NoEmptyDirectoryLeft ==
    /\ (pc \in {"finish", "done"} /\ ~rmdirErr) =>
          \A d \in dirs :
             \E p \in DOMAIN files :
                Len(p) > Len(d) /\ SubSeq(p, 1, Len(d)) = d
    /\ pc = "prune" => \A i \in 1..Len(todo) : todo[i] # <<>>
    /\ rootKind = "dir" => <<>> \notin dirs

C12_Witness ==
    /\ pc = "done"
    /\ run = 1
    /\ ~rmdirErr
    /\ {<<E>>, <<E, F>>} \subseteq start.dirs
    /\ <<E>> \notin dirs
    /\ <<S>> \in start.dirs

\* C13: from a root holding a.zip (of x.t), s/x.t and s/b.zip (of another
\* x.t), with no I/O failure, the run is never left early, makes two scans
\* and ends with exactly the files x.t, x_1.t and x_2.t at the root, holding
\* the three contents, x.t that of a.zip, and with no directory.
C13_Tree ==
    [files |-> Single(<<AZ>>, Zip("a", Single(<<XT>>, Data("a/x"))))
               @@ Single(<<S, XT>>, Data("s/x"))
               @@ Single(<<S, BZ>>, Zip("b", Single(<<XT>>, Data("b/x")))),
     dirs  |-> {<<S>>}]

C13_Scenario ==
    (start = C13_Tree /\ run = 1 /\ failures = 0) =>
        /\ pc \notin {"aborted", "returned"}
        /\ scans <= 2
        /\ pc = "done" =>
              /\ DOMAIN files = {<<XT>>, <<X1T>>, <<<<"x", "_", "2", ".", "t">>>>}
              /\ files[<<XT>>] = Data("a/x")
              /\ {files[p] : p \in DOMAIN files}
                    = {Data("a/x"), Data("s/x"), Data("b/x")}
              /\ dirs = {}
              /\ nerr = 0

C13_Witness ==
    /\ start = C13_Tree
    /\ run = 1
    /\ failures = 0
    /\ pc = "done"
    /\ <<<<"x", "_", "2", ".", "t">>>> \in DOMAIN files

\* C14: on a root with no file named *.zip and no subdirectory the run
\* goes through its three phases without changing the tree, without an
\* I/O operation that could fail and without an error report.
C14_NothingToDo ==
    (rootKind = "dir" /\ start.dirs = {}
        /\ \A p \in DOMAIN start.files : ~EndsWith(Last(p), <<".", "z", "i", "p">>)) =>
        /\ files = start.files
        /\ dirs = {}
        /\ nerr = 0
        /\ failures = 0
        /\ temp = <<>>
        /\ pc \in {"start", "scan", "walk2", "walk3", "finish", "done"}
        /\ \A i \in 1..Len(out) : out[i].level = "info"

C14_Witness ==
    /\ rootKind = "dir"
    /\ start.dirs = {}
    /\ DOMAIN start.files = {<<XT>>, <<X1T>>}
    /\ pc = "done"
    /\ run = 2

C14_WitnessEmptyRoot ==
    /\ rootKind = "dir"
    /\ start = NoTree
    /\ pc = "done"

\* the archive-nesting depth of a tree: 0 without a file named *.zip, 1 for
\* an archive holding no archive
RECURSIVE Depth(_)
Depth(f) ==
    LET z == {p \in DOMAIN f : EndsWith(Last(p), <<".", "z", "i", "p">>)}
        d(p) == 1 + (IF f[p].kind = "zip" THEN Depth(f[p].entries) ELSE 0)
    IN  IF z = {} THEN 0
        ELSE d(CHOOSE p \in z : \A q \in z : d(q) <= d(p))

RECURSIVE AllValid(_)
AllValid(f) ==
    \A p \in DOMAIN f :
        EndsWith(Last(p), <<".", "z", "i", "p">>) =>
            (f[p].kind = "zip" /\ AllValid(f[p].entries))

NoZipNamed == \A p \in DOMAIN files : ~EndsWith(Last(p), <<".", "z", "i", "p">>)

\* C15: with valid archives only and no I/O failure, every scan made while
\* phase 1 is inside its loop has found an archive and their number is at
\* most the nesting depth; the loop is left by the one scan that finds
\* none, hence after at most depth + 1 scans, and then every archive, those
\* produced by an extraction included, has been expanded and removed.
C15_ScansBoundedByDepth ==
    (run = 1 /\ failures = 0 /\ AllValid(start.files)) =>
        /\ pc \in {"expand", "move", "cleanup", "remove"} =>
              (zips # <<>> /\ scans <= Depth(start.files))
        /\ pc = "scan" => scans <= Depth(start.files)
        /\ pc \in {"walk2", "flatten", "walk3", "prune", "finish", "done"} =>
              (scans - 1 <= Depth(start.files) /\ NoZipNamed)
        /\ pc # "aborted"

C15_Witness ==
    /\ run = 1
    /\ failures = 0
    /\ AllValid(start.files)
    /\ Depth(start.files) = 2
    /\ pc = "done"
    /\ scans = 3

\* where the contents of a tree come from: the basename each file has, in
\* the tree or in its archive, whether it is inside an archive, and its
\* path when it is not
RECURSIVE Origins(_, _)
Origins(f, arch) ==
    UNION {IF EndsWith(Last(p), <<".", "z", "i", "p">>)
           THEN (IF f[p].kind = "zip" THEN Origins(f[p].entries, TRUE) ELSE {})
           ELSE {[c |-> f[p], name |-> Last(p), arch |-> arch,
                  path |-> IF arch THEN <<>> ELSE p]} : p \in DOMAIN f}

\* the suffix a root name carries with respect to the basename n: 0 for n
\* itself, k for n with _k before its extension, -1 for any other name
Idx(n, name) ==
    LET base == splitext(n)[1]
        ext  == splitext(n)[2]
        ks   == {k \in 1..(Cardinality(DOMAIN files) + Cardinality(dirs) + 1) :
                    name = base \o <<"_">> \o Str(k) \o ext}
    IN  IF name = n THEN 0
        ELSE IF ks = {} THEN 0 - 1 ELSE CHOOSE k \in ks : TRUE

Phase ==
    CASE pc = "start" -> 0
      [] pc \in {"scan", "expand", "move", "cleanup", "remove"} -> 1
      [] pc \in {"walk2", "flatten"} -> 2
      [] pc \in {"walk3", "prune", "finish"} -> 3
      [] OTHER -> 4

PhaseOrder ==
    /\ run' = run => Phase' >= Phase
    /\ files' # files => Phase \in {1, 2}
    /\ (Phase = 2 /\ files' # files) => pc = "flatten"
    /\ (dirs' # dirs /\ Phase # 1) => pc = "prune"

ArchiveNamesFirst ==
    LET O    == Origins(start.files, FALSE)
        root == {p \in DOMAIN files : Len(p) = 1}
    IN  \A a \in {o \in O : o.arch} :
        \A b \in {o \in O : ~o.arch /\ Len(o.path) > 1 /\ o.name = a.name} :
        \A p \in {r \in root : files[r] = a.c} :
        \A q \in {r \in root : files[r] = b.c} :
            /\ Idx(a.name, p[1]) >= 0
            /\ Idx(a.name, p[1]) < Idx(b.name, q[1])

\* C16: within a run the phases follow one another and never go back: the
\* tree's files change in phases 1 and 2 only, in phase 2 by the moves of
\* the Flattener only, and outside phase 1 a directory goes only by a step
\* of the Pruner; and of two files with one basename that are at the root,
\* one extracted from an archive and one flattened from a subdirectory,
\* the extracted one has the unsuffixed name or the lower suffix.
C16_PhasesInOrder ==
    [][PhaseOrder /\ (files' # files => ArchiveNamesFirst')]_vars

C16_Witness ==
    /\ pc = "done"
    /\ run = 1
    /\ <<S, XT>> \in DOMAIN start.files
    /\ <<S, BZ>> \in DOMAIN start.files
    /\ <<XT>> \in DOMAIN start.files
    /\ <<X1T>> \in DOMAIN files /\ files[<<X1T>>] = Data("b/x")
    /\ <<<<"x", "_", "2", ".", "t">>>> \in DOMAIN files
    /\ files[<<<<"x", "_", "2", ".", "t">>>>] = Data("s/x")

\* C17: a file whose basename is the name of a subdirectory of the root is
\* only ever at its first place, inside a scratch directory, or directly
\* under the root with that basename suffixed, never inside the
\* subdirectory of its name; after a run without I/O failure it is a file
\* of the root.
C17_DirectoryNameIsUsed ==
    \A o \in Origins(start.files, FALSE) :
        <<o.name>> \in start.dirs =>
            /\ \A p \in DOMAIN files :
                  files[p] = o.c =>
                     \/ (~o.arch /\ p = o.path)
                     \/ (Len(p) > 1 /\ IsTmpName(p[1]))
                     \/ (Len(p) = 1 /\ Idx(o.name, p[1]) >= 1)
            /\ (pc = "done" /\ failures = 0) =>
                  \E p \in DOMAIN files : Len(p) = 1 /\ files[p] = o.c

C17_Witness ==
    /\ pc = "done"
    /\ run = 1
    /\ failures = 0
    /\ <<<<"s", "_", "1">>>> \in DOMAIN files
    /\ files[<<<<"s", "_", "1">>>>] = Data("a/s")
    /\ <<<<"s", "_", "2">>>> \in DOMAIN files
    /\ files[<<<<"s", "_", "2">>>>] = Data("s/s")

\* C18: while phase 2 or phase 3 runs, and when they have run, no file of
\* the tree has a name ending in '.zip'.
C18_NoArchiveAfterExpander ==
    pc \in {"walk2", "flatten", "walk3", "prune", "finish", "done"} =>
        \A p \in DOMAIN files :
            LET n == Last(p)
            IN  ~(Len(n) >= 4 /\ SubSeq(n, Len(n) - 3, Len(n)) = <<".", "z", "i", "p">>)

C18_Witness ==
    /\ pc = "flatten"
    /\ run = 1
    /\ \E p \in DOMAIN start.files :
          Len(p) = 2 /\ Last(p) = BZ /\ start.files[p].kind = "zip"
    /\ \E p \in DOMAIN start.files :
          Len(p) = 1 /\ Last(p) = AZ /\ start.files[p].kind = "zip"
====
